---- MODULE Spec2Model ----
(***************************************************************************)
(* Model of package config (src/config/config.go): Parse, the version-1    *)
(* model v1 with its accessors, v1.Validate, credentialRequest.validate,   *)
(* credentialRequest.flatten and parseProviderConfig.                      *)
(*                                                                         *)
(* A Go pointer is a record with a field nil: [nil |-> TRUE] is the nil    *)
(* pointer, and a non-nil pointer carries the fields of the struct it      *)
(* points to.  A Go error is a record with a field kind; Nil is the nil    *)
(* error and Panic is the run-time panic of a nil pointer dereference.     *)
(***************************************************************************)
EXTENDS Naturals, Integers, Sequences, FiniteSets

VARIABLES
    doc,       \* Parse's argument b, as the decoder sees it
    pc,        \* position of the caller / of Validate's walk
    strict,    \* err assigned by yaml.UnmarshalStrict (line 31), "none" before
    perr,      \* error returned by Parse
    cfg,       \* Config returned by Parse (*v1)
    stores,    \* Validate: map stores (line 78), its key set
    requests,  \* Validate: map requests (line 92), its key set
    i,         \* Validate: index of the store / request group examined
    ii,        \* Validate: index of the cred examined
    flat,      \* Validate: cred.flatten() being ranged over (line 102)
    k,         \* Validate: index into flat
    result,    \* value Validate returned
    out,       \* value Requests() returned
    node,      \* credentialRequest the node functions are applied to
    verr,      \* value node.validate() returned
    fres       \* value node.flatten() returned

vars == <<doc, pc, strict, perr, cfg, stores, requests, i, ii, flat, k,
          result, out, node, verr, fres>>

-----------------------------------------------------------------------------
(* Bounds of the explored inputs.                                          *)

\* stores per document
MaxStores == 2
\* nodes (request groups + creds + list entries) of a request section built
\* from the small value sets
MaxNodes == 5
\* nodes of a request section built from the wide leaf value sets
MaxLeafNodes == 3
\* nodes of the request section that follows a widely varied store section
MaxTailNodes == 2
\* list entries of a node handed to validate() / flatten() directly
MaxList == 2
\* largest version number of a document
MaxVersion == 2

-----------------------------------------------------------------------------
(* Values.                                                                 *)

NilPtr == [nil |-> TRUE]
Nil == [kind |-> "nil"]
Panic == [kind |-> "panic"]
Pending == [kind |-> "pending"]

\* sidecred.Inprocess, SSM, SecretsManager, GithubSecrets (line 81)
StoreTypes == {"inprocess", "ssm", "secretsManager", "githubSecrets"}

\* the cases of parseProviderConfig's switch (lines 192-200)
CredentialTypes ==
    {"aws:sts", "github:access-token", "github:deploy-key",
     "artifactory:access-token", "random"}

\* sidecred.StoreConfig.Alias(): the store's name when it has one, else its type
Alias(s) == IF s.name # "" THEN s.name ELSE s.type

\* sidecred.UnmarshalConfig: strict decode of the raw provider config into the
\* provider's struct; "{bad" stands for a raw message that does not decode
UnmarshalConfig(config) == IF config = "{bad" THEN [kind |-> "decode"] ELSE Nil

\* the provider config's own Validate(); "{invalid}" stands for a raw message
\* that decodes and fails the provider's validation
ProviderValidate(config) == IF config = "{invalid}" THEN [kind |-> "invalid"] ELSE Nil

Min(S) == CHOOSE x \in S : \A y \in S : x <= y

-----------------------------------------------------------------------------
(* credentialRequest.validate and credentialRequest.flatten.               *)

\* lines 153-169
validate(c) ==
    IF c.nil THEN Panic
    ELSE IF Len(c.list) = 0 THEN Nil
    ELSE IF c.inl.nil THEN Panic
    ELSE IF c.inl.name # "" THEN [kind |-> "shorthand", field |-> "name"]
    ELSE IF c.inl.config # "" THEN [kind |-> "shorthand", field |-> "config"]
    ELSE LET stop == {n \in 1..Len(c.list) :
                         c.list[n].nil \/ c.list[n].type # ""}
         IN  IF stop = {} THEN Nil
             ELSE IF c.list[Min(stop)].nil THEN Panic
             ELSE [kind |-> "shorthand", field |-> "type", entry |-> Min(stop) - 1]

\* lines 172-186
flatten(c) ==
    IF c.nil THEN Panic
    ELSE IF Len(c.list) = 0 THEN [kind |-> "ok", reqs |-> <<c.inl>>]
    ELSE IF c.inl.nil THEN Panic
    ELSE IF \E n \in 1..Len(c.list) : c.list[n].nil THEN Panic
    ELSE [kind |-> "ok",
          reqs |-> [n \in 1..Len(c.list) |->
                      [nil |-> FALSE,
                       type |-> c.inl.type,
                       name |-> c.list[n].name,
                       rotationWindow |-> c.list[n].rotationWindow,
                       config |-> c.list[n].config]]]

\* parseProviderConfig with the empty tag falling into the last case
parseProviderConfigDefault(t, config) ==
    IF t \notin CredentialTypes \cup {""} THEN [kind |-> "unknown type", type |-> t]
    ELSE IF UnmarshalConfig(config) # Nil THEN [kind |-> "unmarshal config"]
    ELSE Nil

\* lines 189-209
parseProviderConfig(t, config) ==
    IF t \notin CredentialTypes THEN [kind |-> "unknown type", type |-> t]
    ELSE IF UnmarshalConfig(config) # Nil THEN [kind |-> "unmarshal config"]
    ELSE Nil

-----------------------------------------------------------------------------
(* The checks of v1.Validate's loop bodies.                                *)

\* checkStore looking up the store's type where it should look up its alias
checkStoreByType(idx, s, seen) ==
    IF s.nil THEN Panic
    ELSE IF s.type \notin StoreTypes
         THEN [kind |-> "unknown store type", i |-> idx, type |-> s.type]
    ELSE IF s.type \in seen
         THEN [kind |-> "duplicate store", i |-> idx, alias |-> Alias(s)]
    ELSE Nil

\* lines 80-87: one store, against the aliases seen so far
checkStore(idx, s, seen) ==
    IF s.nil THEN Panic
    ELSE IF s.type \notin StoreTypes
         THEN [kind |-> "unknown store type", i |-> idx, type |-> s.type]
    ELSE IF Alias(s) \in seen
         THEN [kind |-> "duplicate store", i |-> idx, alias |-> Alias(s)]
    ELSE Nil

\* checkRequest without the lookup of the store
checkRequestAnyStore(idx, request, seen) ==
    IF request.nil THEN Panic ELSE Nil

\* lines 95-97: one request group, against the store aliases
checkRequest(idx, request, seen) ==
    IF request.nil THEN Panic
    ELSE IF request.store \notin seen
         THEN [kind |-> "undefined store", i |-> idx, store |-> request.store]
    ELSE Nil

\* lines 99-101: the shorthand check of one cred
checkCred(idx, cidx, cred) ==
    LET e == validate(cred)
    IN  IF e = Nil \/ e = Panic THEN e
        ELSE [kind |-> "cred", i |-> idx, ii |-> cidx, cause |-> e]

\* requestsKey leaving the store out of the key
requestsKeyByName(store, name) == [store |-> "", name |-> name]

\* the key of map requests (lines 91, 110)
requestsKey(store, name) == [store |-> store, name |-> name]

\* lines 103-113: one flattened request, against the keys seen so far
checkFlat(idx, cidx, store, r, seen) ==
    IF r.nil THEN Panic
    ELSE IF parseProviderConfig(r.type, r.config) # Nil
         THEN [kind |-> "parse config", i |-> idx, ii |-> cidx,
               cause |-> parseProviderConfig(r.type, r.config)]
    ELSE IF ProviderValidate(r.config) # Nil
         THEN [kind |-> "invalid config", i |-> idx, ii |-> cidx]
    ELSE IF requestsKey(store, r.name) \in seen
         THEN [kind |-> "duplicated request", i |-> idx, ii |-> cidx,
               key |-> requestsKey(store, r.name)]
    ELSE Nil

-----------------------------------------------------------------------------
(* Parse (lines 17-40), in two steps: the version probe and the dispatch.  *)

\* yaml.Unmarshal(b, &t) of line 21: fails on a document that is not YAML or
\* whose version is no Go int
versionProbe(d) ==
    IF ~d.syntax \/ d.version.kind = "other" THEN [kind |-> "unmarshal version"]
    ELSE Nil

\* versionMissing without the nil check
versionMissingNever(d) == FALSE

\* lines 25-27
versionMissing(d) == d.version.kind = "absent"

\* yaml.UnmarshalStrict(b, &v1) of line 31: fails on a document that does not
\* fit the version-1 schema (unknown field, wrong type)
UnmarshalStrict(d) == IF d.schema THEN Nil ELSE [kind |-> "strict"]

\* the switch with a second version falling into case 1
isV1Loose(d) == d.version.val \in {1, 2}

\* the switch of lines 28-35
isV1(d) == d.version.val = 1

ParseVersion ==
    /\ pc = "start"
    /\ IF versionProbe(doc) # Nil
       THEN perr' = versionProbe(doc) /\ pc' = "failed"
       ELSE IF versionMissing(doc)
       THEN perr' = [kind |-> "missing version"] /\ pc' = "failed"
       ELSE perr' = perr /\ pc' = "switch"
    /\ UNCHANGED <<doc, strict, cfg, stores, requests, i, ii, flat, k,
                   result, out, node, verr, fres>>

ParseSwitch ==
    /\ pc = "switch"
    /\ IF isV1(doc)
       THEN /\ strict' = UnmarshalStrict(doc)
            /\ IF UnmarshalStrict(doc) # Nil
               THEN /\ perr' = [kind |-> "unmarshal config", version |-> doc.version.val]
                    /\ pc' = "failed"
                    /\ cfg' = cfg
               ELSE /\ perr' = Nil
                    /\ pc' = "parsed"
                    /\ cfg' = doc.body
       ELSE /\ perr' = [kind |-> "unknown version", version |-> doc.version.val]
            /\ pc' = "failed"
            /\ UNCHANGED <<strict, cfg>>
    /\ UNCHANGED <<doc, stores, requests, i, ii, flat, k, result, out,
                   node, verr, fres>>

-----------------------------------------------------------------------------
(* v1.Validate (lines 70-119), one step per loop iteration.                *)

Return(r) == result' = r /\ pc' = IF r = Panic THEN "crashed" ELSE "done"

\* lines 71-78
ValidateBegin ==
    /\ pc = "parsed"
    /\ stores' = {}
    /\ i' = 0
    /\ IF cfg.namespace = ""
       THEN Return([kind |-> "missing field", field |-> "namespace"])
       ELSE IF Len(cfg.stores) = 0
       THEN Return([kind |-> "missing field", field |-> "stores"])
       ELSE pc' = "stores" /\ result' = result
    /\ UNCHANGED <<doc, strict, perr, cfg, requests, ii, flat, k, out,
                   node, verr, fres>>

\* lines 79-92: one iteration of the loop over the stores
StoreStep ==
    /\ pc = "stores"
    /\ LET s == cfg.stores[i + 1]
           e == checkStore(i, s, stores)
       IN  IF e # Nil
           THEN Return(e) /\ UNCHANGED <<stores, i, requests>>
           ELSE /\ stores' = stores \cup {Alias(s)}
                /\ result' = result
                /\ IF i + 1 < Len(cfg.stores)
                   THEN i' = i + 1 /\ pc' = "stores" /\ requests' = requests
                   ELSE i' = 0 /\ pc' = "requests" /\ requests' = {}
    /\ UNCHANGED <<doc, strict, perr, cfg, ii, flat, k, out, node, verr, fres>>

\* lines 94-97: the head of one iteration of the loop over the request groups
RequestStep ==
    /\ pc = "requests"
    /\ i < Len(cfg.requests)
    /\ LET e == checkRequest(i, cfg.requests[i + 1], stores)
       IN  IF e # Nil
           THEN Return(e) /\ ii' = ii
           ELSE pc' = "creds" /\ ii' = 0 /\ result' = result
    /\ UNCHANGED <<doc, strict, perr, cfg, stores, requests, i, flat, k, out,
                   node, verr, fres>>

\* lines 98-102: the head of one iteration of the loop over a group's creds
CredStep ==
    /\ pc = "creds"
    /\ LET creds == cfg.requests[i + 1].creds
       IN  IF ii = Len(creds)
           THEN /\ pc' = "requests" /\ i' = i + 1
                /\ UNCHANGED <<flat, k, result>>
           ELSE LET e == checkCred(i, ii, creds[ii + 1])
                IN  IF e # Nil
                    THEN Return(e) /\ UNCHANGED <<i, flat, k>>
                    ELSE /\ flat' = flatten(creds[ii + 1]).reqs
                         /\ k' = 0
                         /\ pc' = "flat"
                         /\ UNCHANGED <<i, result>>
    /\ UNCHANGED <<doc, strict, perr, cfg, stores, requests, ii, out,
                   node, verr, fres>>

\* lines 102-115: one iteration of the loop over the flattened requests
FlatStep ==
    /\ pc = "flat"
    /\ IF k = Len(flat)
       THEN /\ pc' = "creds" /\ ii' = ii + 1
            /\ UNCHANGED <<requests, k, result>>
       ELSE LET store == cfg.requests[i + 1].store
                e == checkFlat(i, ii, store, flat[k + 1], requests)
            IN  IF e # Nil
                THEN Return(e) /\ UNCHANGED <<requests, ii, k>>
                ELSE /\ requests' = requests \cup {requestsKey(store, flat[k + 1].name)}
                     /\ k' = k + 1
                     /\ UNCHANGED <<pc, ii, result>>
    /\ UNCHANGED <<doc, strict, perr, cfg, stores, i, flat, out, node, verr, fres>>

\* line 118
ValidateReturn ==
    /\ pc = "requests"
    /\ i = Len(cfg.requests)
    /\ Return(Nil)
    /\ UNCHANGED <<doc, strict, perr, cfg, stores, requests, i, ii, flat, k,
                   out, node, verr, fres>>

-----------------------------------------------------------------------------
(* v1.Requests (lines 62-67) and requestV1.credentialsMap (lines 126-134). *)

RECURSIVE Concat(_)
Concat(ss) == IF Len(ss) = 0 THEN <<>> ELSE Head(ss) \o Concat(Tail(ss))

credentialsMap(c) ==
    IF c.nil THEN Panic
    ELSE IF \E n \in 1..Len(c.creds) : flatten(c.creds[n]) = Panic THEN Panic
    ELSE [kind |-> "ok",
          store |-> c.store,
          credentials |-> Concat([n \in 1..Len(c.creds) |-> flatten(c.creds[n]).reqs])]

RequestsOf(c) ==
    IF \E n \in 1..Len(c.requests) : credentialsMap(c.requests[n]) = Panic
    THEN Panic
    ELSE [kind |-> "ok",
          maps |-> [n \in 1..Len(c.requests) |-> credentialsMap(c.requests[n])]]

\* the caller reads the request list off the Config it holds
Requests ==
    /\ pc \in {"parsed", "done"}
    /\ out' = RequestsOf(cfg)
    /\ pc' = IF RequestsOf(cfg) = Panic THEN "crashed" ELSE "listed"
    /\ UNCHANGED <<doc, strict, perr, cfg, stores, requests, i, ii, flat, k,
                   result, node, verr, fres>>

-----------------------------------------------------------------------------
(* The node functions applied to one credentialRequest.                    *)

NodeValidate ==
    /\ pc = "node"
    /\ verr = Pending
    /\ verr' = validate(node)
    /\ UNCHANGED <<doc, pc, strict, perr, cfg, stores, requests, i, ii, flat,
                   k, result, out, node, fres>>

NodeFlatten ==
    /\ pc = "node"
    /\ fres = Pending
    /\ fres' = flatten(node)
    /\ UNCHANGED <<doc, pc, strict, perr, cfg, stores, requests, i, ii, flat,
                   k, result, out, node, verr>>

-----------------------------------------------------------------------------
(* The explored inputs.                                                    *)

RECURSIVE SeqsUpTo(_, _)
SeqsUpTo(S, n) == IF n = 0 THEN {<<>>} ELSE [1..n -> S] \cup SeqsUpTo(S, n - 1)

\* *sidecred.CredentialRequest values
CR(T, N, R, C) == [nil : {FALSE}, type : T, name : N, rotationWindow : R, config : C]

\* *credentialRequest values with an empty list
Singles(I) == [nil : {FALSE}, inl : I, list : {<<>>}]

\* *sidecred.StoreConfig values
Store(t, n) == [nil |-> FALSE, type |-> t, name |-> n]

\* creds of exactly w nodes: a cred without list is one node, a cred with a
\* list is one node plus one per entry
CredsW(S, W, E, w) ==
    IF w = 1 THEN S
    ELSE [nil : {FALSE}, inl : W, list : [1..(w - 1) -> E]]

\* sequences of creds of w nodes in all (CredSeqsV: the first of v or more)
RECURSIVE CredSeqsW(_, _, _, _), CredSeqsV(_, _, _, _, _)
CredSeqsV(S, W, E, w, v) ==
    IF v > w THEN {}
    ELSE {<<p[1]>> \o p[2] : p \in CredsW(S, W, E, v) \X CredSeqsW(S, W, E, w - v)}
             \cup CredSeqsV(S, W, E, w, v + 1)
CredSeqsW(S, W, E, w) == IF w = 0 THEN {<<>>} ELSE CredSeqsV(S, W, E, w, 1)

\* request groups of exactly w nodes: the group is one node; G0 are the
\* null groups
GroupsW(G, G0, S, W, E, w) ==
    [nil : {FALSE}, store : G, creds : CredSeqsW(S, W, E, w - 1)]
        \cup (IF w = 1 THEN G0 ELSE {})

\* sequences of groups of w nodes in all (GroupSeqsV: the first of v or more)
RECURSIVE GroupSeqsW(_, _, _, _, _, _), GroupSeqsV(_, _, _, _, _, _, _)
GroupSeqsV(G, G0, S, W, E, w, v) ==
    IF v > w THEN {}
    ELSE {<<p[1]>> \o p[2] :
             p \in GroupsW(G, G0, S, W, E, v) \X GroupSeqsW(G, G0, S, W, E, w - v)}
             \cup GroupSeqsV(G, G0, S, W, E, w, v + 1)
GroupSeqsW(G, G0, S, W, E, w) ==
    IF w = 0 THEN {<<>>} ELSE GroupSeqsV(G, G0, S, W, E, w, 1)

\* request sections of at most b nodes
RECURSIVE ReqLists(_, _, _, _, _, _)
ReqLists(G, G0, S, W, E, b) ==
    GroupSeqsW(G, G0, S, W, E, b)
        \cup (IF b = 0 THEN {} ELSE ReqLists(G, G0, S, W, E, b - 1))

Docs(V, Y, M, NS, ST, RQ) ==
    [syntax : Y, version : V, schema : M,
     body : [namespace : NS, stores : ST, requests : RQ]]

VersionOne == [kind |-> "int", val |-> 1]
Versions ==
    {[kind |-> "absent", val |-> 0], [kind |-> "other", val |-> 0]}
        \cup [kind : {"int"}, val : 0..MaxVersion]

AllTypes == CredentialTypes \cup {"", "bogus"}

\* small value sets: well-formed requests that differ in name only
SmallSingles == Singles(CR({"random"}, {"a", "b"}, {0}, {"{}"}))
SmallWraps == CR({"random"}, {""}, {0}, {""})
SmallEntries == CR({""}, {"a", "b"}, {0}, {"{}"})
SmallReqs(b) ==
    ReqLists({"inprocess", "ssm"}, {}, SmallSingles, SmallWraps, SmallEntries, b)

\* wide value sets: every type tag, every config outcome, absent pointers
WideSingles ==
    {NilPtr} \cup Singles({NilPtr}
                             \cup CR(AllTypes, {"a"}, {0}, {"{}"})
                             \cup CR({"random", "", "bogus"}, {"a"}, {0}, {"{bad", "{invalid}"}))
WideWraps == {NilPtr} \cup CR({"random", ""}, {"", "w"}, {0}, {"", "{}"})
WideEntries == {NilPtr} \cup CR({"", "random"}, {"a"}, {0}, {"{}", "{invalid}"})
WideReqs(b) ==
    ReqLists({"inprocess", "missing"}, {NilPtr}, WideSingles, WideWraps, WideEntries, b)

\* the request sections that follow a varied store section
TailReqs(b) ==
    ReqLists({"inprocess", "missing"}, {},
             Singles(CR({"random"}, {"a"}, {0}, {"{}"})), {}, {}, b)

StoreValues ==
    {NilPtr} \cup {Store(t, n) : t \in {"inprocess", "ssm", "bogus"},
                                 n \in {"", "inprocess"}}

\* documents that vary the version gate and the strict decode
ParseDocs ==
    Docs(Versions, BOOLEAN, BOOLEAN, {"", "ns"},
         {<<>>, <<Store("inprocess", "")>>}, TailReqs(MaxTailNodes))

\* documents that vary the namespace and the store section
StoreDocs ==
    Docs({VersionOne}, {TRUE}, {TRUE}, {"", "ns"},
         SeqsUpTo(StoreValues, MaxStores), TailReqs(MaxTailNodes))

\* documents that vary the leaves of the request section
LeafDocs ==
    Docs({VersionOne}, {TRUE}, {TRUE}, {"ns"},
         {<<Store("inprocess", "")>>}, WideReqs(MaxLeafNodes))

\* documents that vary the shape of the request section
ShapeDocs ==
    Docs({VersionOne}, {TRUE}, {TRUE}, {"ns"},
         {<<Store("inprocess", ""), Store("ssm", "")>>}, SmallReqs(MaxNodes))

NoDoc == [syntax |-> FALSE, version |-> [kind |-> "absent", val |-> 0],
          schema |-> FALSE,
          body |-> [namespace |-> "", stores |-> <<>>, requests |-> <<>>]]

NodeInl == {NilPtr} \cup CR({"", "random"}, {"", "a", "b"}, {0, 1}, {"", "{}"})
Nodes(n) == [nil : {FALSE}, inl : NodeInl, list : SeqsUpTo(NodeInl, n)]

-----------------------------------------------------------------------------
(* Specifications.                                                         *)

InitLocals ==
    /\ strict = [kind |-> "none"]
    /\ perr = Pending
    /\ cfg = NoDoc.body
    /\ stores = {}
    /\ requests = {}
    /\ i = 0
    /\ ii = 0
    /\ flat = <<>>
    /\ k = 0
    /\ result = Pending
    /\ out = Pending
    /\ verr = Pending
    /\ fres = Pending

Init ==
    /\ doc \in ParseDocs \cup StoreDocs \cup LeafDocs \cup ShapeDocs
    /\ pc = "start"
    /\ node = NilPtr
    /\ InitLocals

Next ==
    \/ ParseVersion
    \/ ParseSwitch
    \/ ValidateBegin
    \/ StoreStep
    \/ RequestStep
    \/ CredStep
    \/ FlatStep
    \/ ValidateReturn
    \/ Requests

Spec == Init /\ [][Next]_vars

InitNode ==
    /\ doc = NoDoc
    /\ pc = "node"
    /\ node \in {NilPtr} \/ node \in Nodes(MaxList)
    /\ InitLocals

NextNode == NodeValidate \/ NodeFlatten

SpecNode == InitNode /\ [][NextNode]_vars

-----------------------------------------------------------------------------
(* The document-order reading of a decoded model c, stated on the document *)
(* itself: every place where the walk of spec section 4.4 would stop, with *)
(* what it reports there, and the first of them.                           *)

\* Validate has ended / has ended by returning
Ended == result # Pending
Returned == Ended /\ result # Panic

NonNil(s) == {n \in 1..Len(s) : ~s[n].nil}

\* the aliases of the stores of c
AliasesOf(c) == {Alias(c.stores[n]) : n \in NonNil(c.stores)}

\* the authored requests of a cred: itself, or its list entries
Leaves(cred) == IF Len(cred.list) = 0 THEN <<cred.inl>> ELSE cred.list

Max(S) == CHOOSE x \in S : \A y \in S : y <= x

\* the longest creds sequence or list of c
Widest(c) ==
    Max({0} \cup {Len(c.requests[g].creds) : g \in NonNil(c.requests)}
            \cup UNION {{Len(c.requests[g].creds[n].list) :
                            n \in NonNil(c.requests[g].creds)} : g \in NonNil(c.requests)})

\* positions <<g, n, l>> of the authored requests of c
LeafPos(c) ==
    {p \in (1..Len(c.requests)) \X (1..Widest(c)) \X (1..Widest(c) + 1) :
        /\ ~c.requests[p[1]].nil
        /\ p[2] <= Len(c.requests[p[1]].creds)
        /\ ~c.requests[p[1]].creds[p[2]].nil
        /\ p[3] <= Len(Leaves(c.requests[p[1]].creds[p[2]]))
        /\ ~Leaves(c.requests[p[1]].creds[p[2]])[p[3]].nil}

LeafAt(c, p) == Leaves(c.requests[p[1]].creds[p[2]])[p[3]]
PairAt(c, p) == [store |-> c.requests[p[1]].store, name |-> LeafAt(c, p).name]

RECURSIVE Less(_, _)
Less(p, q) ==
    /\ Len(p) > 0
    /\ \/ Head(p) < Head(q)
       \/ Head(p) = Head(q) /\ Less(Tail(p), Tail(q))

\* an earlier authored request has the same (store, name) pair
Repeats(c, p) == \E q \in LeafPos(c) : Less(q, p) /\ PairAt(c, q) = PairAt(c, p)

HasDuplicateRequest(c) == \E p \in LeafPos(c) : Repeats(c, p)

\* an earlier store has the same alias
RepeatsAlias(c, n) ==
    /\ ~c.stores[n].nil
    /\ \E m \in NonNil(c.stores) : m < n /\ Alias(c.stores[m]) = Alias(c.stores[n])

HasDuplicateAlias(c) == \E n \in 1..Len(c.stores) : RepeatsAlias(c, n)

StoreStop(c, n) ==
    LET s == c.stores[n]
    IN  IF s.nil THEN Panic
        ELSE IF s.type \notin StoreTypes
             THEN [kind |-> "unknown store type", i |-> n - 1, type |-> s.type]
        ELSE IF RepeatsAlias(c, n)
             THEN [kind |-> "duplicate store", i |-> n - 1, alias |-> Alias(s)]
        ELSE Nil

GroupStop(c, g) ==
    LET r == c.requests[g]
    IN  IF r.nil THEN Panic
        ELSE IF r.store \notin AliasesOf(c)
             THEN [kind |-> "undefined store", i |-> g - 1, store |-> r.store]
        ELSE Nil

CredStop(c, g, n) ==
    LET cred == c.requests[g].creds[n]
        at(f) == [kind |-> "cred", i |-> g - 1, ii |-> n - 1, cause |-> f]
    IN  IF cred.nil THEN Panic
        ELSE IF Len(cred.list) = 0 THEN Nil
        ELSE IF cred.inl.nil THEN Panic
        ELSE IF cred.inl.name # ""
             THEN at([kind |-> "shorthand", field |-> "name"])
        ELSE IF cred.inl.config # ""
             THEN at([kind |-> "shorthand", field |-> "config"])
        ELSE IF \E e \in 1..Len(cred.list) :
                   /\ cred.list[e].nil
                   /\ \A d \in 1..(e - 1) : ~cred.list[d].nil /\ cred.list[d].type = ""
             THEN Panic
        ELSE IF \E e \in NonNil(cred.list) : cred.list[e].type # ""
             THEN at([kind |-> "shorthand", field |-> "type",
                      entry |-> Min({e \in NonNil(cred.list) : cred.list[e].type # ""}) - 1])
        ELSE Nil

LeafStop(c, g, n, l) ==
    LET cred == c.requests[g].creds[n]
        leaf == Leaves(cred)[l]
        type == IF Len(cred.list) = 0 THEN leaf.type ELSE cred.inl.type
    IN  IF leaf.nil \/ cred.inl.nil THEN Panic
        ELSE IF type \notin CredentialTypes
             THEN [kind |-> "parse config", i |-> g - 1, ii |-> n - 1,
                   cause |-> [kind |-> "unknown type", type |-> type]]
        ELSE IF leaf.config = "{bad"
             THEN [kind |-> "parse config", i |-> g - 1, ii |-> n - 1,
                   cause |-> [kind |-> "unmarshal config"]]
        ELSE IF leaf.config = "{invalid}"
             THEN [kind |-> "invalid config", i |-> g - 1, ii |-> n - 1]
        ELSE IF Repeats(c, <<g, n, l>>)
             THEN [kind |-> "duplicated request", i |-> g - 1, ii |-> n - 1,
                   key |-> PairAt(c, <<g, n, l>>)]
        ELSE Nil

\* the stops of c, each with its place <<phase, index, cred, leaf>>
Stops(c) ==
    (IF c.namespace = ""
     THEN {[pos |-> <<0, 0, 0, 0>>,
            err |-> [kind |-> "missing field", field |-> "namespace"]]}
     ELSE {})
    \cup (IF Len(c.stores) = 0
          THEN {[pos |-> <<1, 0, 0, 0>>,
                 err |-> [kind |-> "missing field", field |-> "stores"]]}
          ELSE {})
    \cup {[pos |-> <<2, n, 0, 0>>, err |-> StoreStop(c, n)] : n \in 1..Len(c.stores)}
    \cup {[pos |-> <<3, g, 0, 0>>, err |-> GroupStop(c, g)] : g \in 1..Len(c.requests)}
    \cup {[pos |-> <<3, p[1], p[2], 0>>, err |-> CredStop(c, p[1], p[2])] :
             p \in {q \in (1..Len(c.requests)) \X (1..Widest(c)) :
                      /\ ~c.requests[q[1]].nil
                      /\ q[2] <= Len(c.requests[q[1]].creds)}}
    \cup {[pos |-> <<3, p[1], p[2], p[3]>>, err |-> LeafStop(c, p[1], p[2], p[3])] :
             p \in {q \in (1..Len(c.requests)) \X (1..Widest(c)) \X (1..Widest(c) + 1) :
                      /\ ~c.requests[q[1]].nil
                      /\ q[2] <= Len(c.requests[q[1]].creds)
                      /\ ~c.requests[q[1]].creds[q[2]].nil
                      /\ q[3] <= Len(Leaves(c.requests[q[1]].creds[q[2]]))}}

Violations(c) == {s \in Stops(c) : s.err # Nil}

\* what the first of the stops V reports
First(V) ==
    IF V = {} THEN Nil
    ELSE (CHOOSE s \in V : \A u \in V : u.pos = s.pos \/ Less(s.pos, u.pos)).err

\* what the walk in document order returns for c
FirstStop(c) == First(Violations(c))

\* no stop of c precedes place pos
NoStopBefore(c, pos) == \A s \in Violations(c) : ~Less(s.pos, pos)

\* Validate follows the document-order reading on every model, the aborts
\* of absent entries included
WalkInDocumentOrder == Ended => result = FirstStop(cfg)

-----------------------------------------------------------------------------
(* Parse and the version gate.                                             *)

Decodes(d) == d.syntax /\ d.version = VersionOne /\ d.schema

C7_VersionGate ==
    /\ strict.kind # "none" => doc.version = VersionOne
    /\ (perr # Pending /\ doc.syntax /\ doc.version.kind = "absent")
           => perr = [kind |-> "missing version"] /\ strict.kind = "none"
    /\ (pc \notin {"start", "switch"} /\ doc.syntax
            /\ doc.version.kind = "int" /\ doc.version.val # 1)
           => /\ perr = [kind |-> "unknown version", version |-> doc.version.val]
              /\ strict.kind = "none"

\* a version-2 document that does not fit the version-1 schema has been
\* turned down for its version
C7_GateReached ==
    /\ perr.kind = "unknown version"
    /\ perr.version = 2
    /\ ~doc.schema

-----------------------------------------------------------------------------
(* The store section.                                                      *)

KnownStore(s) == ~s.nil /\ s.type \in StoreTypes

FirstRepeatedAlias(c) == Min({n \in 1..Len(c.stores) : RepeatsAlias(c, n)})

\* C2 (as stated): on any config with two stores of the same alias Validate
\* returns the duplicate-store error, at the index of a store that repeats
\* an alias, whatever the type tags (read, in the claim's favour, of the
\* configs with a namespace).
C2_AlwaysDuplicateStore ==
    (Returned /\ cfg.namespace # "" /\ HasDuplicateAlias(cfg))
        => result.kind = "duplicate store" /\ RepeatsAlias(cfg, result.i + 1)

\* C2 (amended): Validate never accepts a config with two stores of the same
\* alias.  With a non-empty namespace it returns the duplicate-store error
\* at the first store that repeats an alias when every store up to and
\* including that one has a known type tag, whichever known tags they are;
\* when one of them has an unknown tag and every store before it a known
\* one, it returns the unknown-type error of that store instead.
C2_DuplicateStoreAfterTypes ==
    (Ended /\ HasDuplicateAlias(cfg)) =>
        LET j == FirstRepeatedAlias(cfg)
            unknown == {n \in 1..j : ~KnownStore(cfg.stores[n])}
        IN  /\ result # Nil
            /\ (cfg.namespace # "" /\ unknown = {})
                   => result = [kind |-> "duplicate store", i |-> j - 1,
                                alias |-> Alias(cfg.stores[j])]
            /\ (cfg.namespace # "" /\ unknown # {} /\ ~cfg.stores[Min(unknown)].nil)
                   => result = [kind |-> "unknown store type", i |-> Min(unknown) - 1,
                                type |-> cfg.stores[Min(unknown)].type]

\* the duplicate-store error for two stores of different type
C2_DifferentTypes ==
    /\ Returned
    /\ result.kind = "duplicate store"
    /\ cfg.stores[1].type # cfg.stores[result.i + 1].type
    /\ Alias(cfg.stores[1]) = result.alias

-----------------------------------------------------------------------------
(* The request section.                                                    *)

StoresValid(c) ==
    /\ Len(c.stores) > 0
    /\ \A n \in 1..Len(c.stores) : StoreStop(c, n) = Nil

UndefinedGroups(c) == {g \in NonNil(c.requests) : c.requests[g].store \notin AliasesOf(c)}

TypeAt(c, p) ==
    LET cred == c.requests[p[1]].creds[p[2]]
    IN  IF Len(cred.list) = 0 THEN LeafAt(c, p).type ELSE cred.inl.type

\* C3 (as stated): on every config in which two flattened requests have the
\* same (store, name) pair Validate fails with the duplicated-request error.
C3_AlwaysDuplicatedRequest ==
    (Returned /\ HasDuplicateRequest(cfg)) => result.kind = "duplicated request"

\* C3 (amended): Validate never accepts a config in which two flattened
\* requests have the same (store, name) pair, wherever the two come from; it
\* fails with the duplicated-request error, at the repeating request, when
\* the walk meets no other violation before that request and the request
\* itself passes the provider-config checks; the same name under two
\* different stores is accepted.
C3_NoDuplicateRequestAccepted ==
    /\ (Ended /\ HasDuplicateRequest(cfg)) => result # Nil
    /\ \A p \in LeafPos(cfg) :
           (/\ Ended
            /\ Repeats(cfg, p)
            /\ NoStopBefore(cfg, <<3, p[1], p[2], p[3]>>)
            /\ ~cfg.requests[p[1]].creds[p[2]].inl.nil
            /\ TypeAt(cfg, p) \in CredentialTypes
            /\ LeafAt(cfg, p).config \notin {"{bad", "{invalid}"})
               => result = [kind |-> "duplicated request", i |-> p[1] - 1,
                            ii |-> p[2] - 1, key |-> PairAt(cfg, p)]
    /\ (Ended /\ Violations(cfg) = {}) => result = Nil

\* the duplicated-request error for a list entry of the second request group
\* that repeats a request of the first group
C3_AcrossGroups ==
    /\ Returned
    /\ result.kind = "duplicated request"
    /\ result.i = 1
    /\ Len(cfg.requests[2].creds[result.ii + 1].list) > 0
    /\ \E p \in LeafPos(cfg) : p[1] = 1 /\ PairAt(cfg, p) = result.key

\* C4 (as stated): with a valid namespace and valid stores, a config in
\* which some request group names an undefined store gets the
\* undefined-store error of the first such group.
C4_AlwaysUndefinedStore ==
    (Returned /\ cfg.namespace # "" /\ StoresValid(cfg) /\ UndefinedGroups(cfg) # {})
        => LET g == Min(UndefinedGroups(cfg))
           IN  result = [kind |-> "undefined store", i |-> g - 1,
                         store |-> cfg.requests[g].store]

\* C4 (amended): with a valid namespace and valid stores, a config in which
\* some request group names an undefined store gets the undefined-store
\* error of the first such group when every earlier group passes all its
\* checks, whatever the creds of that group and whatever follows it; on
\* every accepted config each group's store is the alias of some store.
C4_UndefinedStoreReached ==
    /\ (Ended /\ cfg.namespace # "" /\ StoresValid(cfg) /\ UndefinedGroups(cfg) # {})
           => LET g == Min(UndefinedGroups(cfg))
              IN  NoStopBefore(cfg, <<3, g, 0, 0>>)
                      => result = [kind |-> "undefined store", i |-> g - 1,
                                   store |-> cfg.requests[g].store]
    /\ (Ended /\ result = Nil)
           => \A g \in 1..Len(cfg.requests) :
                  ~cfg.requests[g].nil /\ cfg.requests[g].store \in AliasesOf(cfg)

\* the undefined-store error for a group whose first cred is absent and
\* which another group follows
C4_CredsNotExamined ==
    /\ Returned
    /\ result.kind = "undefined store"
    /\ Len(cfg.requests[result.i + 1].creds) > 0
    /\ cfg.requests[result.i + 1].creds[1].nil

\* C8: on a config with several violations Validate returns one error, that
\* of the violation that comes first in document order
\* (namespace; stores; each store: type, alias; each group: store; each cred:
\* shorthand, then each flattened request: decode, validation, duplicate).
C8_FailFast ==
    LET errors == {s \in Violations(cfg) : s.err # Panic}
    IN  (Ended /\ Cardinality(errors) >= 2) => result = First(errors)

\* C9: Validate ends by returning nil or an error on every decoded model.
C9_ValidateReturns == result # Panic

\* C10: on every accepted config each flattened request has one of the five
\* type tags, and a step of the walk that examines a flattened request with
\* any other tag (the empty tag included) returns the unknown-type error.
C10_ClosedTypeSet ==
    /\ [](Ended /\ result = Nil
            => \A p \in LeafPos(cfg) :
                   /\ ~cfg.requests[p[1]].creds[p[2]].inl.nil
                   /\ TypeAt(cfg, p) \in CredentialTypes)
    /\ [][(/\ pc = "flat"
           /\ k < Len(flat)
           /\ ~flat[k + 1].nil
           /\ flat[k + 1].type \notin CredentialTypes)
             => result' = [kind |-> "parse config", i |-> i, ii |-> ii,
                           cause |-> [kind |-> "unknown type",
                                      type |-> flat[k + 1].type]]]_vars

\* the unknown-type error for the entry of a list whose wrapper has the
\* empty type tag
C10_EmptyWrapperType ==
    /\ Returned
    /\ result.kind = "parse config"
    /\ result.cause = [kind |-> "unknown type", type |-> ""]
    /\ Len(cfg.requests[result.i + 1].creds[result.ii + 1].list) > 0

-----------------------------------------------------------------------------
(* The node functions.                                                     *)

\* the entries of node n that declare a type
Typed(n) == {e \in 1..Len(n.list) : ~n.list[e].nil /\ n.list[e].type # ""}

WrapperName(n) == IF n.inl.nil THEN "" ELSE n.inl.name
WrapperConfig(n) == IF n.inl.nil THEN "" ELSE n.inl.config

ShorthandCheck(n, e) ==
    IF Len(n.list) = 0 THEN e = Nil
    ELSE IF WrapperName(n) # "" THEN e = [kind |-> "shorthand", field |-> "name"]
    ELSE IF WrapperConfig(n) # "" THEN e = [kind |-> "shorthand", field |-> "config"]
    ELSE IF Typed(n) # {}
         THEN e = [kind |-> "shorthand", field |-> "type", entry |-> Min(Typed(n)) - 1]
    ELSE e = Nil

\* C5: validate() of a node with a non-empty list returns the shorthand
\* error exactly when the wrapper has a name, or a config, or an entry
\* declares a type (the first such entry is reported), and nil otherwise;
\* validate() of a node with an empty list returns nil.
C5_ShorthandCheck == (verr # Pending /\ ~node.nil) => ShorthandCheck(node, verr)

\* the requests a node stands for, in authored order
Expansion(n) ==
    IF Len(n.list) = 0 THEN <<n.inl>>
    ELSE [e \in 1..Len(n.list) |->
             [nil |-> FALSE,
              type |-> n.inl.type,
              name |-> n.list[e].name,
              rotationWindow |-> n.list[e].rotationWindow,
              config |-> n.list[e].config]]

Expanded(n, f) ==
    /\ f.kind = "ok"
    /\ Len(f.reqs) = (IF Len(n.list) = 0 THEN 1 ELSE Len(n.list))
    /\ f.reqs = Expansion(n)

\* C6: flatten() of a node with an empty list returns that one request, and
\* of a node with N >= 1 list entries N requests, the e-th with the
\* wrapper's type and the e-th entry's name, rotationWindow and config.
C6_Flatten == (fres # Pending /\ ~node.nil) => Expanded(node, fres)

\* every pointer of node n is set
Present(n) ==
    /\ ~n.nil
    /\ ~n.inl.nil
    /\ \A e \in 1..Len(n.list) : ~n.list[e].nil

\* validate() and flatten() do as C5 and C6 say on the nodes all of whose
\* pointers are set
NodeFunctionsOnPresentNodes ==
    /\ (verr # Pending /\ Present(node)) => ShorthandCheck(node, verr)
    /\ (fres # Pending /\ Present(node)) => Expanded(node, fres)

\* Requests() lists one map per request group in order, with the group's
\* store and the concatenation of its creds' flattenings
RequestsConcatenates ==
    (out # Pending /\ out # Panic) =>
        /\ Len(out.maps) = Len(cfg.requests)
        /\ \A g \in 1..Len(cfg.requests) :
               /\ out.maps[g].store = cfg.requests[g].store
               /\ out.maps[g].credentials =
                      Concat([n \in 1..Len(cfg.requests[g].creds) |->
                                 Expansion(cfg.requests[g].creds[n])])

====
